---- MODULE Spec2Model ----
(***************************************************************************)
(* FlowMaker Pro X core engine (src/app.js): the node/edge collections,    *)
(* the undo/redo history, the pointer interaction modes and the inline     *)
(* label editors, as a state machine with one action per event handler.    *)
(*                                                                         *)
(* Handlers are written as operators from a state record to a state        *)
(* record, so that a handler that calls other functions (deleteSelected    *)
(* calls closeEditors and saveHistory) is the composition of their         *)
(* operators, in the order of the calls in the source.                     *)
(***************************************************************************)
EXTENDS Integers, Sequences, FiniteSets, TLC

\* ------------------------------------------------------------------ constants
GRID_SIZE == 10
HISTORY_LIMIT == 50
\* Math.max(80, ...) and Math.max(40, ...) in the mousemove handler.
MIN_WIDTH == 80
MIN_HEIGHT == 40

\* ------------------------------------------------------------------ bounds
\* Mutating gestures and commands started.
MaxOps == 2
\* The clock reading at which the session starts (the persisted diagram's ids are
\* older), and the last one at which Spec creates an id.
StartClock == 4
MaxClock == 6
\* Sizes of the collections.
MaxNodes == 2
MaxEdges == 1
\* Exports in flight at the same time.
MaxExports == 1

VARIABLES
    nodes,            \* let nodes: array of node objects
    edges,            \* let edges: array of edge objects
    historyStack,     \* let historyStack: array of serialized {nodes, edges}
    redoStack,        \* let redoStack
    mode,             \* state.mode
    selectedId,       \* state.selectedId
    targetItem,       \* state.targetItem: a reference to a node object
    activeTool,       \* state.activeTool
    projectName,      \* state.projectName
    editingItem,      \* state.editingItem: {type, id} or null
    dragOffset,       \* state.dragOffset
    nodeEditorValue,  \* nodeEditor.value
    edgeEditorValue,  \* edgeEditor.value
    storage,          \* localStorage['flowmaker_pro_x_v11']
    pendingExports,   \* const oldSelected of every export whose capture has not settled
    now,              \* Date.now()
    phase,            \* "boot" before init() has run, "run" after
    ops               \* mutating gestures and commands started so far

vars == <<nodes, edges, historyStack, redoStack, mode, selectedId, targetItem,
          activeTool, projectName, editingItem, dragOffset, nodeEditorValue,
          edgeEditorValue, storage, pendingExports, now, phase, ops>>

\* ------------------------------------------------------------------ values
\* null for an id; ids are <<"node", t>> and <<"edge", t>> for `node-${t}`, `edge-${t}`.
NoId == <<>>
NoNode == [id |-> NoId, type |-> "", x |-> 0, y |-> 0, width |-> 0, height |-> 0, label |-> ""]
\* state.targetItem is an object reference.  "live": the object is nodes[idx];
\* "stale": the object is no longer an element of the nodes array (it was spliced
\* out, or the array was replaced by freshly parsed objects) and obj is its content.
NoTarget == [kind |-> "null", idx |-> 0, obj |-> NoNode]
NoEdit == [type |-> "none", id |-> NoId]
DefaultProjectName == "My Flowchart"

Last(seq) == seq[Len(seq)]
Front(seq) == SubSeq(seq, 1, Len(seq) - 1)
RemoveAt(seq, i) == SubSeq(seq, 1, i - 1) \o SubSeq(seq, i + 1, Len(seq))
Max(a, b) == IF a >= b THEN a ELSE b

\* Array.prototype.findIndex / find: the first index whose element has the id, 0 for -1.
FindIndexById(seq, id) ==
    IF \E i \in 1..Len(seq) : seq[i].id = id
    THEN CHOOSE i \in 1..Len(seq) : seq[i].id = id /\ \A j \in 1..(i - 1) : seq[j].id # id
    ELSE 0

\* The program state as one record.
S ==
    [nodes |-> nodes, edges |-> edges, historyStack |-> historyStack,
     redoStack |-> redoStack, mode |-> mode, selectedId |-> selectedId,
     targetItem |-> targetItem, activeTool |-> activeTool,
     projectName |-> projectName, editingItem |-> editingItem,
     dragOffset |-> dragOffset, nodeEditorValue |-> nodeEditorValue,
     edgeEditorValue |-> edgeEditorValue, storage |-> storage,
     pendingExports |-> pendingExports]

\* ------------------------------------------------------------------ geometry
\* A faulty variant of snap() that truncates instead of rounding.
snap_Floor(val) == (val \div GRID_SIZE) * GRID_SIZE

\* Math.round(val / GRID_SIZE) * GRID_SIZE; Math.round rounds halves up, so
\* Math.round(v / G) = floor(v / G + 1/2) = floor((2v + G) / 2G).
snap(val) == ((2 * val + GRID_SIZE) \div (2 * GRID_SIZE)) * GRID_SIZE

\* ------------------------------------------------------------------ history
\* JSON.stringify({nodes, edges}): the text is determined by, and determines, the
\* field values of every node and edge in order; two texts are equal exactly when
\* these tuples are.
stringify(n, e) == <<n, e>>
\* JSON.parse(text): fresh objects with the serialized field values.
parse(data) == [nodes |-> data[1], edges |-> data[2]]

persistToBrowser(s) ==
    [s EXCEPT !.storage = [kind |-> "json", data |-> <<s.nodes, s.edges, s.projectName>>]]

\* Faulty variants of saveHistory(), used to show that the properties of the history
\* manager depend on its code: one that never drops the oldest snapshot, one that
\* pushes without comparing with the top, one that keeps the redo stack.
saveHistory_NoShift(s) ==
    LET data == stringify(s.nodes, s.edges)
    IN  IF Len(s.historyStack) = 0 \/ Last(s.historyStack) # data
        THEN persistToBrowser([s EXCEPT !.historyStack = Append(s.historyStack, data),
                                        !.redoStack = <<>>])
        ELSE s

saveHistory_AlwaysPush(s) ==
    LET data == stringify(s.nodes, s.edges)
        pushed == Append(s.historyStack, data)
        capped == IF Len(pushed) > HISTORY_LIMIT THEN Tail(pushed) ELSE pushed
    IN  persistToBrowser([s EXCEPT !.historyStack = capped, !.redoStack = <<>>])

saveHistory_KeepRedo(s) ==
    LET data == stringify(s.nodes, s.edges)
    IN  IF Len(s.historyStack) = 0 \/ Last(s.historyStack) # data
        THEN LET pushed == Append(s.historyStack, data)
                 capped == IF Len(pushed) > HISTORY_LIMIT THEN Tail(pushed) ELSE pushed
             IN  persistToBrowser([s EXCEPT !.historyStack = capped])
        ELSE s

saveHistory(s) ==
    LET data == stringify(s.nodes, s.edges)
    IN  IF Len(s.historyStack) = 0 \/ Last(s.historyStack) # data
        THEN LET pushed == Append(s.historyStack, data)
                 capped == IF Len(pushed) > HISTORY_LIMIT THEN Tail(pushed) ELSE pushed
             IN  persistToBrowser([s EXCEPT !.historyStack = capped, !.redoStack = <<>>])
        ELSE s

\* The reference state.targetItem after `nodes` is bound to another array of
\* other objects: the object it names is no longer in the diagram.
Detached(s) ==
    IF s.targetItem.kind = "live"
    THEN [kind |-> "stale", idx |-> 0, obj |-> s.nodes[s.targetItem.idx]]
    ELSE s.targetItem

applyState(s, data) ==
    [s EXCEPT !.nodes = data.nodes, !.edges = data.edges, !.targetItem = Detached(s)]

undo(s) ==
    IF Len(s.historyStack) <= 1 THEN s
    ELSE LET popped == Last(s.historyStack)
             s1 == [s EXCEPT !.historyStack = Front(s.historyStack),
                             !.redoStack = Append(s.redoStack, popped)]
         IN  applyState(s1, parse(Last(s1.historyStack)))

redo(s) ==
    IF Len(s.redoStack) = 0 THEN s
    ELSE LET next == Last(s.redoStack)
             s1 == [s EXCEPT !.redoStack = Front(s.redoStack),
                             !.historyStack = Append(s.historyStack, stringify(s.nodes, s.edges))]
         IN  applyState(s1, parse(next))

\* ------------------------------------------------------------------ graph model
NodeTypes == {"lead-source", "decision", "database", "api", "user", "document", "cloud", "process"}

DefaultWidth(type) ==
    CASE type = "decision" -> 160
      [] type = "lead-source" -> 180
      [] type = "database" -> 160
      [] type = "api" -> 180
      [] type = "user" -> 140
      [] type = "document" -> 140
      [] type = "cloud" -> 160
      [] OTHER -> 160

DefaultHeight(type) ==
    CASE type = "decision" -> 120
      [] type = "lead-source" -> 50
      [] type = "database" -> 70
      [] type = "api" -> 50
      [] type = "user" -> 60
      [] type = "document" -> 80
      [] type = "cloud" -> 100
      [] OTHER -> 60

\* type.charAt(0).toUpperCase() + type.slice(1), on the type names of NodeTypes.
Capitalize(type) ==
    CASE type = "decision" -> "Decision"
      [] type = "process" -> "Process"
      [] type = "lead-source" -> "Lead-source"
      [] type = "database" -> "Database"
      [] type = "api" -> "Api"
      [] type = "user" -> "User"
      [] type = "document" -> "Document"
      [] type = "cloud" -> "Cloud"
      [] OTHER -> type

DefaultLabel(type) ==
    CASE type = "lead-source" -> "Trigger"
      [] type = "database" -> "Database"
      [] type = "api" -> "API Request"
      [] type = "user" -> "User Input"
      [] type = "document" -> "Document"
      [] type = "cloud" -> "Cloud"
      [] OTHER -> Capitalize(type)

\* createNode(type, x, y, label) at clock reading t; label "" stands for a falsy
\* label (null or the empty string), which is replaced by the type's default.
createNode(s, type, x, y, label, t) ==
    LET node == [id |-> <<"node", t>>, type |-> type, x |-> snap(x), y |-> snap(y),
                 width |-> DefaultWidth(type), height |-> DefaultHeight(type),
                 label |-> IF label = "" THEN DefaultLabel(type) ELSE label]
    IN  [s EXCEPT !.nodes = Append(s.nodes, node)]

\* The second definition of createNode in the source: a fixed 160 x 60 with two
\* exceptions, and the label as passed.
createNodeSecond(s, type, x, y, label, t) ==
    LET node == [id |-> <<"node", t>>, type |-> type, x |-> snap(x), y |-> snap(y),
                 width |-> IF type = "lead-source" THEN 180 ELSE 160,
                 height |-> IF type = "decision" THEN 120
                            ELSE IF type = "lead-source" THEN 44 ELSE 60,
                 label |-> label]
    IN  [s EXCEPT !.nodes = Append(s.nodes, node)]

\* ------------------------------------------------------------------ editing layer
\* A faulty variant of closeEditors() that turns an edge around when it writes
\* its label.
closeEditors_TurnsEdge(s) ==
    LET ed == s.editingItem
        i == IF ed.type = "node" THEN FindIndexById(s.nodes, ed.id)
             ELSE IF ed.type = "edge" THEN FindIndexById(s.edges, ed.id)
             ELSE 0
        s1 == IF i = 0 THEN s
              ELSE IF ed.type = "node"
                   THEN saveHistory([s EXCEPT !.nodes[i].label = s.nodeEditorValue])
                   ELSE saveHistory([s EXCEPT !.edges[i].label = s.edgeEditorValue,
                                              !.edges[i].source = s.edges[i].target,
                                              !.edges[i].target = s.edges[i].source])
    IN  [s1 EXCEPT !.editingItem = NoEdit]

\* A faulty variant of closeEditors() that returns early when the item is missing.
closeEditors_KeepMissing(s) ==
    LET ed == s.editingItem
        i == IF ed.type = "node" THEN FindIndexById(s.nodes, ed.id)
             ELSE IF ed.type = "edge" THEN FindIndexById(s.edges, ed.id)
             ELSE 0
    IN  IF i = 0 THEN s
        ELSE IF ed.type = "node"
             THEN [saveHistory([s EXCEPT !.nodes[i].label = s.nodeEditorValue])
                      EXCEPT !.editingItem = NoEdit]
             ELSE [saveHistory([s EXCEPT !.edges[i].label = s.edgeEditorValue])
                      EXCEPT !.editingItem = NoEdit]

closeEditors(s) ==
    LET ed == s.editingItem
        i == IF ed.type = "node" THEN FindIndexById(s.nodes, ed.id)
             ELSE IF ed.type = "edge" THEN FindIndexById(s.edges, ed.id)
             ELSE 0
        s1 == IF i = 0 THEN s
              ELSE IF ed.type = "node"
                   THEN saveHistory([s EXCEPT !.nodes[i].label = s.nodeEditorValue])
                   ELSE saveHistory([s EXCEPT !.edges[i].label = s.edgeEditorValue])
    IN  [s1 EXCEPT !.editingItem = NoEdit]

\* A faulty variant of openNodeEditor() that does not close the open session.
openNodeEditor_NoClose(s, i) ==
    LET node == s.nodes[i]
    IN  IF s.editingItem.type # "none" /\ s.editingItem.id = node.id THEN s
        ELSE [s EXCEPT !.selectedId = node.id,
                       !.editingItem = [type |-> "node", id |-> node.id],
                       !.nodeEditorValue = s.nodes[i].label]

openNodeEditor(s, i) ==
    LET node == s.nodes[i]
    IN  IF s.editingItem.type # "none" /\ s.editingItem.id = node.id THEN s
        ELSE LET s1 == closeEditors(s)
             IN  [s1 EXCEPT !.selectedId = node.id,
                            !.editingItem = [type |-> "node", id |-> node.id],
                            !.nodeEditorValue = s1.nodes[i].label]

openEdgeEditor(s, j) ==
    LET edge == s.edges[j]
    IN  IF s.editingItem.type # "none" /\ s.editingItem.id = edge.id THEN s
        ELSE LET s1 == closeEditors(s)
             IN  [s1 EXCEPT !.selectedId = edge.id,
                            !.editingItem = [type |-> "edge", id |-> edge.id],
                            !.edgeEditorValue = s1.edges[j].label]

\* ------------------------------------------------------------------ deletion
\* state.targetItem after nodes.splice(nodeIdx, 1).
AfterSplice(tgt, removed, nodeIdx) ==
    IF tgt.kind # "live" THEN tgt
    ELSE IF tgt.idx = nodeIdx THEN [kind |-> "stale", idx |-> 0, obj |-> removed]
    ELSE IF tgt.idx > nodeIdx THEN [tgt EXCEPT !.idx = tgt.idx - 1]
    ELSE tgt

\* A faulty variant of deleteSelected() whose edge filter looks at the source only.
deleteSelected_SourceOnly(s) ==
    IF s.selectedId = NoId THEN s
    ELSE LET sel == s.selectedId
             nodeIdx == FindIndexById(s.nodes, sel)
             edgeIdx == FindIndexById(s.edges, sel)
             s1 == IF nodeIdx # 0
                   THEN [s EXCEPT !.nodes = RemoveAt(s.nodes, nodeIdx),
                                  !.edges = SelectSeq(s.edges, LAMBDA e : e.source # sel),
                                  !.targetItem = AfterSplice(s.targetItem, s.nodes[nodeIdx], nodeIdx)]
                   ELSE IF edgeIdx # 0
                        THEN [s EXCEPT !.edges = RemoveAt(s.edges, edgeIdx)]
                        ELSE s
             s2 == [s1 EXCEPT !.selectedId = NoId]
         IN  saveHistory(closeEditors(s2))

deleteSelected(s) ==
    IF s.selectedId = NoId THEN s
    ELSE LET sel == s.selectedId
             nodeIdx == FindIndexById(s.nodes, sel)
             edgeIdx == FindIndexById(s.edges, sel)
             s1 == IF nodeIdx # 0
                   THEN [s EXCEPT !.nodes = RemoveAt(s.nodes, nodeIdx),
                                  !.edges = SelectSeq(s.edges,
                                              LAMBDA e : e.source # sel /\ e.target # sel),
                                  !.targetItem = AfterSplice(s.targetItem, s.nodes[nodeIdx], nodeIdx)]
                   ELSE IF edgeIdx # 0
                        THEN [s EXCEPT !.edges = RemoveAt(s.edges, edgeIdx)]
                        ELSE s
             s2 == [s1 EXCEPT !.selectedId = NoId]
         IN  saveHistory(closeEditors(s2))

\* ------------------------------------------------------------------ interaction engine
\* The node object state.targetItem refers to.
TargetObj(s) ==
    IF s.targetItem.kind = "live" THEN s.nodes[s.targetItem.idx] ELSE s.targetItem.obj

\* An assignment through state.targetItem: it changes the diagram only while the
\* object is still an element of the nodes array.
SetTargetObj(s, obj) ==
    IF s.targetItem.kind = "live"
    THEN [s EXCEPT !.nodes[s.targetItem.idx] = obj]
    ELSE [s EXCEPT !.targetItem.obj = obj]

\* A faulty variant of startDragging() that records no grab offset.
startDragging_NoOffset(s, i, p) ==
    [s EXCEPT !.mode = "dragging",
              !.targetItem = [kind |-> "live", idx |-> i, obj |-> NoNode],
              !.dragOffset = [x |-> 0, y |-> 0]]

startDragging(s, i, p) ==
    [s EXCEPT !.mode = "dragging",
              !.targetItem = [kind |-> "live", idx |-> i, obj |-> NoNode],
              !.dragOffset = [x |-> p[1] - s.nodes[i].x, y |-> p[2] - s.nodes[i].y]]

\* A faulty variant of startResizing() that enters the declared panning mode.
startResizing_Pans(s, i) ==
    [s EXCEPT !.mode = "panning",
              !.targetItem = [kind |-> "live", idx |-> i, obj |-> NoNode]]

startResizing(s, i) ==
    [s EXCEPT !.mode = "resizing",
              !.targetItem = [kind |-> "live", idx |-> i, obj |-> NoNode]]

startConnecting(s, i) ==
    [s EXCEPT !.mode = "connecting",
              !.targetItem = [kind |-> "live", idx |-> i, obj |-> NoNode]]

\* A faulty variant of the 'mousemove' listener that resizes without the minimum.
mousemove_NoMin(s, p) ==
    IF s.mode = "idle" THEN s
    ELSE IF s.mode = "dragging"
         THEN SetTargetObj(s, [TargetObj(s) EXCEPT !.x = snap(p[1] - s.dragOffset.x),
                                                   !.y = snap(p[2] - s.dragOffset.y)])
    ELSE IF s.mode = "resizing"
         THEN LET o == TargetObj(s)
              IN  SetTargetObj(s, [o EXCEPT !.width = snap(p[1] - o.x),
                                            !.height = snap(p[2] - o.y)])
    ELSE s

\* A faulty variant of the 'mousemove' listener that drags the node along while
\* connecting.
mousemove_ConnectDrags(s, p) ==
    IF s.mode = "idle" THEN s
    ELSE IF s.mode = "dragging" \/ s.mode = "connecting"
         THEN SetTargetObj(s, [TargetObj(s) EXCEPT !.x = snap(p[1] - s.dragOffset.x),
                                                   !.y = snap(p[2] - s.dragOffset.y)])
    ELSE IF s.mode = "resizing"
         THEN LET o == TargetObj(s)
                  o1 == [o EXCEPT !.width = Max(MIN_WIDTH, snap(p[1] - o.x))]
              IN  SetTargetObj(s, [o1 EXCEPT !.height = Max(MIN_HEIGHT, snap(p[2] - o1.y))])
    ELSE s

\* window 'mousemove' listener; p is getSVGCoords(e) at zoom 1.
mousemove(s, p) ==
    IF s.mode = "idle" THEN s
    ELSE IF s.mode = "dragging"
         THEN SetTargetObj(s, [TargetObj(s) EXCEPT !.x = snap(p[1] - s.dragOffset.x),
                                                   !.y = snap(p[2] - s.dragOffset.y)])
    ELSE IF s.mode = "resizing"
         THEN LET o == TargetObj(s)
                  o1 == [o EXCEPT !.width = Max(MIN_WIDTH, snap(p[1] - o.x))]
              IN  SetTargetObj(s, [o1 EXCEPT !.height = Max(MIN_HEIGHT, snap(p[2] - o1.y))])
    ELSE s

\* The predicate of nodes.find in finalizeConnection.
ConnectHit(n, srcId, p) ==
    /\ n.id # srcId
    /\ p[1] > n.x /\ p[1] < n.x + n.width
    /\ p[2] > n.y /\ p[2] < n.y + n.height

\* A faulty variant of the lookup that takes the last node that satisfies the
\* predicate, the one rendered on top.
FindConnectTarget_Last(s, p) ==
    LET srcId == TargetObj(s).id
        hits == {i \in 1..Len(s.nodes) : ConnectHit(s.nodes[i], srcId, p)}
    IN  IF hits = {} THEN 0 ELSE CHOOSE i \in hits : \A j \in hits : j <= i

\* nodes.find(...): the first node in array order that satisfies it, 0 for undefined.
FindConnectTarget(s, p) ==
    LET srcId == TargetObj(s).id
        hits == {i \in 1..Len(s.nodes) : ConnectHit(s.nodes[i], srcId, p)}
    IN  IF hits = {} THEN 0 ELSE CHOOSE i \in hits : \A j \in hits : i <= j

finalizeConnection(s, p, t) ==
    LET target == FindConnectTarget(s, p)
    IN  IF target # 0
        THEN saveHistory([s EXCEPT !.edges = Append(s.edges,
                 [id |-> <<"edge", t>>, source |-> TargetObj(s).id,
                  target |-> s.nodes[target].id, label |-> ""])])
        ELSE s

\* A faulty variant of the 'mouseup' listener that keeps the target reference.
mouseup_KeepTarget(s, p, t) ==
    LET s1 == IF s.mode = "connecting" THEN finalizeConnection(s, p, t) ELSE s
        s2 == IF s1.mode # "idle" THEN saveHistory(s1) ELSE s1
    IN  [s2 EXCEPT !.mode = "idle"]

\* window 'mouseup' listener.
mouseup(s, p, t) ==
    LET s1 == IF s.mode = "connecting" THEN finalizeConnection(s, p, t) ELSE s
        s2 == IF s1.mode # "idle" THEN saveHistory(s1) ELSE s1
    IN  [s2 EXCEPT !.mode = "idle", !.targetItem = NoTarget]

\* ------------------------------------------------------------------ project name
\* nameInput.oninput with the input's value.
nameInput(s, value) ==
    persistToBrowser([s EXCEPT !.projectName = IF value = "" THEN DefaultProjectName
                                               ELSE value])

\* ------------------------------------------------------------------ export
\* exportPNG() and exportPDF() up to the capture: both remember the selection,
\* clear it, close the editors and start domtoimage.toPng, whose promise settles
\* in a later task.
exportStart(s) ==
    LET oldSelected == s.selectedId
        s1 == closeEditors([s EXCEPT !.selectedId = NoId])
    IN  [s1 EXCEPT !.pendingExports = Append(s1.pendingExports, oldSelected)]

\* A faulty variant of the settling that does not restore the selection.
exportSettle_NoRestore(s, k) ==
    [s EXCEPT !.pendingExports = RemoveAt(s.pendingExports, k)]

\* The finally of the k-th export in flight; the then and catch that run before
\* it (download or alert) assign no variable of the program.
exportSettle(s, k) ==
    [s EXCEPT !.selectedId = s.pendingExports[k],
              !.pendingExports = RemoveAt(s.pendingExports, k)]

\* ------------------------------------------------------------------ hit regions
\* The rendered <g> of a node: a shape of width x height at translate(x, y).
InBox(n, p) ==
    /\ p[1] >= n.x /\ p[1] <= n.x + n.width
    /\ p[2] >= n.y /\ p[2] <= n.y + n.height

\* The 24 x 24 icon hitboxes at (20, 20) and (width - 20, 20) and the resize
\* handle (a circle of radius 7 at (width - 6, height - 6)), drawn over the shape.
OnIconOrHandle(n, p) ==
    LET lx == p[1] - n.x
        ly == p[2] - n.y
    IN  \/ (lx >= 8 /\ lx <= 32 /\ ly >= 8 /\ ly <= 32)
        \/ (lx >= n.width - 32 /\ lx <= n.width - 8 /\ ly >= 8 /\ ly <= 32)
        \/ (lx - (n.width - 6)) * (lx - (n.width - 6))
             + (ly - (n.height - 6)) * (ly - (n.height - 6)) <= 49

\* The node whose body receives a pointer-down at p: the last rendered (topmost)
\* node whose shape contains p, when p is not on one of its icons or its handle.
BodyAt(s, p) ==
    LET hits == {i \in 1..Len(s.nodes) : InBox(s.nodes[i], p)}
        top == CHOOSE i \in hits : \A j \in hits : j <= i
    IN  IF hits = {} THEN 0
        ELSE IF OnIconOrHandle(s.nodes[top], p) THEN 0 ELSE top

\* renderEdges skips an edge one of whose endpoints is not found: it has no path
\* and no label to click.
Rendered(s, j) ==
    /\ FindIndexById(s.nodes, s.edges[j].source) # 0
    /\ FindIndexById(s.nodes, s.edges[j].target) # 0

\* The node editor, an element laid over the canvas by openNodeEditor at the
\* node's box, or at the middle 70% of the box of a decision node; it stops the
\* propagation of a pointer-down that lands on it.  The box is taken at the node's
\* present position and with the editor's minimal height.
EditorCovers(s, p) ==
    /\ s.editingItem.type = "node"
    /\ FindIndexById(s.nodes, s.editingItem.id) # 0
    /\ LET n == s.nodes[FindIndexById(s.nodes, s.editingItem.id)]
           dec == n.type = "decision"
           editX == IF dec THEN n.x + (15 * n.width) \div 100 ELSE n.x
           editY == IF dec THEN n.y + (15 * n.height) \div 100 ELSE n.y
           editW == IF dec THEN (70 * n.width) \div 100 ELSE n.width
           editH == IF dec THEN (70 * n.height) \div 100 ELSE n.height
       IN  /\ p[1] >= editX /\ p[1] <= editX + editW
           /\ p[2] >= editY /\ p[2] <= editY + editH

\* ------------------------------------------------------------------ initialization
\* init() at clock reading t.  JSON.parse of a malformed value throws and the catch
\* leaves nodes and edges as declared; an absent value skips the load.
\* A faulty variant of init() that does not seed an empty diagram.
init_NoSeed(s, t) ==
    saveHistory(IF s.storage.kind = "json"
                THEN [s EXCEPT !.nodes = s.storage.data[1],
                               !.edges = s.storage.data[2],
                               !.projectName = s.storage.data[3]]
                ELSE s)

\* A faulty variant of init() that does not commit the initial diagram.
init_NoCommit(s, t) ==
    LET loaded == IF s.storage.kind = "json"
                  THEN [s EXCEPT !.nodes = s.storage.data[1],
                                 !.edges = s.storage.data[2],
                                 !.projectName = s.storage.data[3]]
                  ELSE s
    IN  IF Len(loaded.nodes) = 0
        THEN createNode(loaded, "lead-source", 320, 150, "Start Source", t)
        ELSE loaded

init(s, t) ==
    LET loaded == IF s.storage.kind = "json"
                  THEN [s EXCEPT !.nodes = s.storage.data[1],
                                 !.edges = s.storage.data[2],
                                 !.projectName = s.storage.data[3]]
                  ELSE s
        seeded == IF Len(loaded.nodes) = 0
                  THEN createNode(loaded, "lead-source", 320, 150, "Start Source", t)
                  ELSE loaded
    IN  saveHistory(seeded)

\* init() of the second definition of the program: the same, with its createNode.
initSecond(s, t) ==
    LET loaded == IF s.storage.kind = "json"
                  THEN [s EXCEPT !.nodes = s.storage.data[1],
                                 !.edges = s.storage.data[2],
                                 !.projectName = s.storage.data[3]]
                  ELSE s
        seeded == IF Len(loaded.nodes) = 0
                  THEN createNodeSecond(loaded, "lead-source", 320, 150, "Start Source", t)
                  ELSE loaded
    IN  saveHistory(seeded)

\* ------------------------------------------------------------------ inputs
\* Pointer positions in canvas coordinates (zoom 1).  P1 is on the body of the
\* seeded node; P2 is P1 moved by (13, 27); P3 is on the body of a node dropped
\* at DropPoint.
P1 == <<380, 175>>
P2 == <<393, 202>>
P3 == <<580, 460>>
Pointers == {P1, P2, P3}
\* P4 is on the body of the persisted decision node, above the middle 70% of its box.
P4 == <<580, 410>>
EditPointers == {P1, P3, P4}
\* P5 is on the body of the third node of the larger persisted diagram.
P5 == <<120, 70>>
ConnectPointers == {P1, P3, P5}
DropPoints == {<<580, 420>>}
DropTypes == {"decision"}
Texts == {"", "Yes"}
\* Pointer positions one unit apart on the body of the seeded node, for drags
\* that present snap() with every residue of the grid unit.
SnapPointers == {<<376 + k, 170 + k>> : k \in 0..10}
\* Values of the project name input.
Names == {"", "Plan"}
\* Milliseconds between one id-creating event and the next event.
Elapsed == {1}
ElapsedSameMs == {0, 1}

\* What localStorage may hold when the script starts: nothing, a value that is no
\* JSON, or the diagram an earlier session persisted (its seeded node, a dropped
\* decision node and an edge between them).
SavedNodes ==
    <<[id |-> <<"node", 1>>, type |-> "lead-source", x |-> 320, y |-> 150,
       width |-> 180, height |-> 50, label |-> "Start Source"],
      [id |-> <<"node", 2>>, type |-> "decision", x |-> 500, y |-> 400,
       width |-> 160, height |-> 120, label |-> "Decision"]>>
SavedEdges ==
    <<[id |-> <<"edge", 3>>, source |-> <<"node", 1>>, target |-> <<"node", 2>>, label |-> ""]>>
\* A larger persisted diagram: three nodes, and three edges of which the second is
\* the only one at the third node.
GraphNodes ==
    SavedNodes \o
    <<[id |-> <<"node", 3>>, type |-> "process", x |-> 40, y |-> 40,
       width |-> 160, height |-> 60, label |-> "Process"]>>
GraphEdges ==
    <<[id |-> <<"edge", 1>>, source |-> <<"node", 1>>, target |-> <<"node", 2>>, label |-> ""],
      [id |-> <<"edge", 2>>, source |-> <<"node", 3>>, target |-> <<"node", 1>>, label |-> "Yes"],
      [id |-> <<"edge", 3>>, source |-> <<"node", 2>>, target |-> <<"node", 1>>, label |-> ""]>>
GraphStorage ==
    {[kind |-> "json", data |-> <<GraphNodes, GraphEdges, DefaultProjectName>>]}

\* The three nodes of the larger diagram, persisted before any edge was drawn.
ConnectStorage ==
    {[kind |-> "json", data |-> <<GraphNodes, <<>>, DefaultProjectName>>]}

StartupStorage ==
    {[kind |-> "absent", data |-> <<>>],
     [kind |-> "malformed", data |-> <<>>],
     [kind |-> "json", data |-> <<SavedNodes, SavedEdges, DefaultProjectName>>]}

\* ------------------------------------------------------------------ events
\* The state after an event: the handler's result s and the clock reading.  Two
\* values that no handler reads before it assigns them are kept at their initial
\* value while they are dead: the editors' values while no editor is displayed
\* (openNodeEditor and openEdgeEditor assign them) and state.dragOffset outside
\* dragging (startDragging assigns it).
Deliver(s, clock) ==
    /\ nodes' = s.nodes
    /\ edges' = s.edges
    /\ historyStack' = s.historyStack
    /\ redoStack' = s.redoStack
    /\ mode' = s.mode
    /\ selectedId' = s.selectedId
    /\ targetItem' = s.targetItem
    /\ activeTool' = s.activeTool
    /\ projectName' = s.projectName
    /\ editingItem' = s.editingItem
    /\ dragOffset' = IF s.mode = "dragging" THEN s.dragOffset ELSE [x |-> 0, y |-> 0]
    /\ nodeEditorValue' = IF s.editingItem.type = "node" THEN s.nodeEditorValue ELSE ""
    /\ edgeEditorValue' = IF s.editingItem.type = "edge" THEN s.edgeEditorValue ELSE ""
    /\ storage' = s.storage
    /\ pendingExports' = s.pendingExports
    /\ now' = clock
    /\ phase' = "run"

\* The state in which the script's declarations leave the program, before init().
Boot(startup) ==
    /\ nodes = <<>>
    /\ edges = <<>>
    /\ historyStack = <<>>
    /\ redoStack = <<>>
    /\ mode = "idle"
    /\ selectedId = NoId
    /\ targetItem = NoTarget
    /\ activeTool = "select"
    /\ projectName = DefaultProjectName
    /\ editingItem = NoEdit
    /\ dragOffset = [x |-> 0, y |-> 0]
    /\ nodeEditorValue = ""
    /\ edgeEditorValue = ""
    /\ storage \in startup
    /\ pendingExports = <<>>
    /\ now = StartClock
    /\ phase = "boot"
    /\ ops = 0

Init == Boot(StartupStorage)

\* The script's last statement: init().
InitApp(dt) ==
    /\ phase = "boot"
    /\ LET s == init(S, now)
       IN  Deliver(s, IF Len(s.nodes) > Len(nodes) THEN now + dt ELSE now)

\* g.onmousedown of the node whose body is under the pointer.
MouseDownNode(p) ==
    /\ phase = "run"
    /\ BodyAt(S, p) # 0
    /\ LET i == BodyAt(S, p)
           s1 == [S EXCEPT !.selectedId = nodes[i].id]
       IN  Deliver(IF s1.activeTool = "connector" THEN startConnecting(s1, i)
                   ELSE startDragging(s1, i, p), now)

\* resBtn.onmousedown of node i.
MouseDownResize(i) ==
    /\ phase = "run"
    /\ i \in 1..Len(nodes)
    /\ Deliver(startResizing(S, i), now)

\* The delete icon of node i.
MouseDownDeleteIcon(i) ==
    /\ phase = "run"
    /\ i \in 1..Len(nodes)
    /\ Deliver(deleteSelected([S EXCEPT !.selectedId = nodes[i].id]), now)

\* The edit icon of node i, or a double click on node i.
OpenNodeEditor(i) ==
    /\ phase = "run"
    /\ i \in 1..Len(nodes)
    /\ Deliver(openNodeEditor(S, i), now)

\* labelGroup.onmousedown of edge j.
MouseDownEdgeLabel(j) ==
    /\ phase = "run"
    /\ j \in 1..Len(edges)
    /\ Rendered(S, j)
    /\ Deliver(openEdgeEditor([S EXCEPT !.selectedId = edges[j].id], j), now)

\* path.onclick of edge j.
ClickEdgePath(j) ==
    /\ phase = "run"
    /\ j \in 1..Len(edges)
    /\ Rendered(S, j)
    /\ Deliver([S EXCEPT !.selectedId = edges[j].id], now)

MouseMove(p) ==
    /\ phase = "run"
    /\ Deliver(mousemove(S, p), now)

MouseUp(p, dt) ==
    /\ phase = "run"
    /\ LET s == mouseup(S, p, now)
       IN  Deliver(s, IF Len(s.edges) > Len(edges) THEN now + dt ELSE now)

\* A faulty variant of container.onmousedown that keeps the selection.
MouseDownCanvas_KeepSelection ==
    /\ phase = "run"
    /\ Deliver(closeEditors(S), now)

\* container.onmousedown with the canvas itself as the event target.
MouseDownCanvas ==
    /\ phase = "run"
    /\ Deliver([closeEditors(S) EXCEPT !.selectedId = NoId], now)

\* window.onkeydown with Delete or Backspace, focus not in an input.
KeyDelete ==
    /\ phase = "run"
    /\ Deliver(IF editingItem.type = "none" THEN deleteSelected(S) ELSE S, now)

\* Ctrl+Z or the undo button; Ctrl+Y or the redo button.
Undo ==
    /\ phase = "run"
    /\ Deliver(undo(S), now)

Redo ==
    /\ phase = "run"
    /\ Deliver(redo(S), now)

\* clear-btn.onclick, confirmed.
ClearWorkspace ==
    /\ phase = "run"
    /\ Deliver(saveHistory([S EXCEPT !.nodes = <<>>, !.edges = <<>>,
                                              !.targetItem = Detached(S)]), now)

\* The user types in the editor that is displayed.
EditorInput(text) ==
    /\ phase = "run"
    /\ editingItem.type # "none"
    /\ Deliver(IF editingItem.type = "node" THEN [S EXCEPT !.nodeEditorValue = text]
               ELSE [S EXCEPT !.edgeEditorValue = text], now)

\* el.onblur, and el.onkeydown with Enter: closeEditors().
EditorCommit ==
    /\ phase = "run"
    /\ editingItem.type # "none"
    /\ Deliver(closeEditors(S), now)

\* el.onkeydown with Escape.
EditorEscape ==
    /\ phase = "run"
    /\ editingItem.type # "none"
    /\ Deliver(closeEditors([S EXCEPT !.editingItem = NoEdit]), now)

\* container.ondrop of a palette item of the given type at p.
Drop(type, p, dt) ==
    /\ phase = "run"
    /\ Deliver(saveHistory(createNode(S, type, p[1] - 80, p[2] - 20, "", now)), now + dt)

\* connector-tool.onclick.
ToggleConnectorTool ==
    /\ phase = "run"
    /\ Deliver([S EXCEPT !.activeTool = IF activeTool = "connector" THEN "select" ELSE "connector"],
               now)

\* init() and container.ondrop of the second definition of the program.
InitAppSecond(dt) ==
    /\ phase = "boot"
    /\ LET s == initSecond(S, now)
       IN  Deliver(s, IF Len(s.nodes) > Len(nodes) THEN now + dt ELSE now)

DropSecond(type, p, dt) ==
    /\ phase = "run"
    /\ LET label == IF type = "lead-source" THEN "Source" ELSE Capitalize(type)
       IN  Deliver(saveHistory(createNodeSecond(S, type, p[1] - 80, p[2] - 20, label, now)),
                   now + dt)

\* export-btn.onclick and export-pdf-btn.onclick.
ExportStart ==
    /\ phase = "run"
    /\ Len(pendingExports) < MaxExports
    /\ Deliver(exportStart(S), now)

\* The capture of the k-th export in flight succeeds (ok) or fails.
ExportSettle(k, ok) ==
    /\ phase = "run"
    /\ k \in 1..Len(pendingExports)
    /\ ok \in BOOLEAN
    /\ Deliver(exportSettle(S, k), now)

\* The user types in the project name input.
NameInput(value) ==
    /\ phase = "run"
    /\ Deliver(nameInput(S, value), now)

\* ------------------------------------------------------------------ specifications
\* Exploration bounds.  Spec follows the editor through MaxOps mutating gestures
\* and commands (a pointer-down on a node or a handle, an edit session, a
\* deletion, a clear, a drop); an event that creates an id needs a clock reading
\* up to MaxClock and room in the collection.
Counted == ops < MaxOps /\ ops' = ops + 1
Free == ops' = ops
NodeRoom == now <= MaxClock /\ Len(nodes) < MaxNodes
EdgeRoom(p) == (mode = "connecting" /\ FindConnectTarget(S, p) # 0) =>
                   (now <= MaxClock /\ Len(edges) < MaxEdges)

Next ==
    \/ Free /\ \E dt \in Elapsed : InitApp(dt)
    \/ Counted /\ \E p \in Pointers : MouseDownNode(p)
    \/ Counted /\ \E i \in 1..Len(nodes) : MouseDownResize(i)
    \/ Counted /\ \E i \in 1..Len(nodes) : MouseDownDeleteIcon(i)
    \/ Counted /\ \E i \in 1..Len(nodes) : OpenNodeEditor(i)
    \/ Counted /\ \E j \in 1..Len(edges) : MouseDownEdgeLabel(j)
    \/ Free /\ \E j \in 1..Len(edges) : ClickEdgePath(j)
    \/ Free /\ \E p \in Pointers : MouseMove(p)
    \/ Free /\ \E p \in Pointers, dt \in Elapsed : EdgeRoom(p) /\ MouseUp(p, dt)
    \/ Free /\ MouseDownCanvas
    \/ Counted /\ KeyDelete
    \/ Free /\ Undo
    \/ Free /\ Redo
    \/ Counted /\ ClearWorkspace
    \/ Free /\ \E text \in Texts : EditorInput(text)
    \/ Free /\ EditorCommit
    \/ Free /\ EditorEscape
    \/ Counted /\ NodeRoom /\ \E type \in DropTypes, p \in DropPoints, dt \in Elapsed : Drop(type, p, dt)
    \/ Free /\ ToggleConnectorTool

Spec == Init /\ [][Next]_vars

\* The history manager at capacity: the editor driven by drags of the seeded node
\* between two grid cells for as long as it takes to push more than HISTORY_LIMIT
\* snapshots, interleaved with up to MaxOps undo and redo commands.
NextHistory ==
    \/ Free /\ \E dt \in Elapsed : InitApp(dt)
    \/ Free /\ \E p \in {P1, P2} : MouseDownNode(p)
    \/ Free /\ \E p \in {P1, P2} : MouseMove(p)
    \/ Free /\ \E dt \in Elapsed : MouseUp(P1, dt)
    \/ Counted /\ Undo
    \/ Counted /\ Redo

SpecHistory == Init /\ [][NextHistory]_vars

\* Events that follow each other within the same millisecond: the clock may stand
\* still between two events that create ids.  The diagram may grow to one node
\* more than MaxNodes, so that two drops fit after the seeded node.
NextSameMs ==
    \/ Free /\ \E dt \in Elapsed : InitApp(dt)
    \/ Counted /\ \E p \in Pointers : MouseDownNode(p)
    \/ Free /\ \E p \in Pointers, dt \in ElapsedSameMs : EdgeRoom(p) /\ MouseUp(p, dt)
    \/ Counted /\ now <= MaxClock /\ Len(nodes) <= MaxNodes
         /\ \E type \in DropTypes, p \in DropPoints, dt \in ElapsedSameMs : Drop(type, p, dt)
    \/ Counted /\ \E i \in 1..Len(nodes) : MouseDownDeleteIcon(i)
    \/ Free /\ ToggleConnectorTool
    \/ Free /\ Undo
    \/ Free /\ Redo

SpecSameMs == Init /\ [][NextSameMs]_vars

\* Deletion and selection on the larger persisted diagram.
NextGraph ==
    \/ Free /\ \E dt \in Elapsed : InitApp(dt)
    \/ Counted /\ \E p \in Pointers : MouseDownNode(p)
    \/ Free /\ \E p \in Pointers, dt \in Elapsed : EdgeRoom(p) /\ MouseUp(p, dt)
    \/ Counted /\ \E i \in 1..Len(nodes) : MouseDownDeleteIcon(i)
    \/ Free /\ \E j \in 1..Len(edges) : ClickEdgePath(j)
    \/ Counted /\ \E j \in 1..Len(edges) : MouseDownEdgeLabel(j)
    \/ Free /\ \E text \in Texts : EditorInput(text)
    \/ Free /\ EditorCommit
    \/ Counted /\ KeyDelete
    \/ Free /\ Undo
    \/ Free /\ Redo

SpecGraph == Boot(GraphStorage) /\ [][NextGraph]_vars

\* Creation, drag and resize gestures in the second definition of the program.
NextSecond ==
    \/ Free /\ \E dt \in Elapsed : InitAppSecond(dt)
    \/ Counted /\ NodeRoom /\ \E type \in DropTypes, p \in DropPoints, dt \in Elapsed : DropSecond(type, p, dt)
    \/ Counted /\ \E p \in Pointers : MouseDownNode(p)
    \/ Counted /\ \E i \in 1..Len(nodes) : MouseDownResize(i)
    \/ Free /\ \E p \in Pointers : MouseMove(p)
    \/ Free /\ \E p \in Pointers, dt \in Elapsed : EdgeRoom(p) /\ MouseUp(p, dt)

SpecSecond == Init /\ [][NextSecond]_vars

\* Drags of the seeded node between pointer positions one unit apart.
NextSnap ==
    \/ Free /\ \E dt \in Elapsed : InitApp(dt)
    \/ Counted /\ \E p \in SnapPointers : MouseDownNode(p)
    \/ Free /\ \E p \in SnapPointers : MouseMove(p)
    \/ Free /\ \E p \in SnapPointers, dt \in Elapsed : MouseUp(p, dt)

SpecSnap == Init /\ [][NextSnap]_vars

\* Exports among selections, deletions, edit sessions, undo and redo.
NextExport ==
    \/ Free /\ \E dt \in Elapsed : InitApp(dt)
    \/ Counted /\ \E p \in Pointers : MouseDownNode(p)
    \/ Free /\ \E p \in Pointers, dt \in Elapsed : EdgeRoom(p) /\ MouseUp(p, dt)
    \/ Free /\ \E j \in 1..Len(edges) : ClickEdgePath(j)
    \/ Counted /\ \E i \in 1..Len(nodes) : OpenNodeEditor(i)
    \/ Free /\ \E text \in Texts : EditorInput(text)
    \/ Counted /\ KeyDelete
    \/ Free /\ Undo
    \/ Free /\ Redo
    \/ Free /\ ExportStart
    \/ Free /\ \E k \in 1..Len(pendingExports), ok \in BOOLEAN : ExportSettle(k, ok)

SpecExport == Init /\ [][NextExport]_vars

\* Project name edits among drops, deletions, undo and redo.
NextName ==
    \/ Free /\ \E dt \in Elapsed : InitApp(dt)
    \/ Free /\ \E value \in Names : NameInput(value)
    \/ Counted /\ NodeRoom /\ \E type \in DropTypes, p \in DropPoints, dt \in Elapsed : Drop(type, p, dt)
    \/ Counted /\ \E i \in 1..Len(nodes) : MouseDownDeleteIcon(i)
    \/ Free /\ Undo
    \/ Free /\ Redo

SpecName == Init /\ [][NextName]_vars

\* Pointer-downs while a label editor is displayed: a press reaches a node or its
\* resize handle only where the editor does not lie over it.
NextEdit ==
    \/ Free /\ \E dt \in Elapsed : InitApp(dt)
    \/ Counted /\ \E p \in EditPointers : ~EditorCovers(S, p) /\ MouseDownNode(p)
    \/ Counted /\ \E i \in 1..Len(nodes) :
           /\ ~EditorCovers(S, <<nodes[i].x + nodes[i].width - 6, nodes[i].y + nodes[i].height - 6>>)
           /\ MouseDownResize(i)
    \/ Counted /\ \E i \in 1..Len(nodes) : OpenNodeEditor(i)
    \/ Counted /\ \E j \in 1..Len(edges) : MouseDownEdgeLabel(j)
    \/ Free /\ \E text \in Texts : EditorInput(text)
    \/ Free /\ EditorCommit
    \/ Free /\ EditorEscape
    \/ Free /\ \E p \in EditPointers : MouseMove(p)
    \/ Free /\ \E p \in EditPointers, dt \in Elapsed : EdgeRoom(p) /\ MouseUp(p, dt)
    \/ Free /\ MouseDownCanvas
    \/ Free /\ ToggleConnectorTool

SpecEdit == Init /\ [][NextEdit]_vars

\* Drags and connect gestures among three nodes, which a drag can lay over one
\* another.
NextConnect ==
    \/ Free /\ \E dt \in Elapsed : InitApp(dt)
    \/ Free /\ ToggleConnectorTool
    \/ Counted /\ \E p \in ConnectPointers : MouseDownNode(p)
    \/ Free /\ \E p \in ConnectPointers : MouseMove(p)
    \/ Free /\ \E p \in ConnectPointers, dt \in Elapsed : EdgeRoom(p) /\ MouseUp(p, dt)

SpecConnect == Boot(ConnectStorage) /\ [][NextConnect]_vars

\* ------------------------------------------------------------------ properties
\* C1.  The undo stack never holds more than HISTORY_LIMIT snapshots, and an event
\* that finds it full and pushes leaves it full, with the oldest snapshot dropped,
\* the others in their order and the committed diagram on top; undo and redo
\* commands in between do not change that.
C1_HistoryCapacityFIFO ==
    /\ [](Len(historyStack) <= HISTORY_LIMIT)
    /\ [][(Len(historyStack) = HISTORY_LIMIT /\ historyStack' # historyStack
             /\ Len(historyStack') >= HISTORY_LIMIT)
          => historyStack' = Tail(historyStack) \o <<stringify(nodes', edges')>>]_vars

\* The stack is full, its oldest entry is no longer the initial diagram, and undo
\* or redo has been used on the way.
C1_Witness ==
    /\ Len(historyStack) = HISTORY_LIMIT
    /\ historyStack[1][1][1].x # 320
    /\ ops > 0

\* C2.  With no gesture and no edit session in progress and at least two entries
\* on the undo stack, undo() followed by redo() brings back the diagram that was
\* live before the undo().
C2_UndoRedoRoundTrip ==
    (phase = "run" /\ mode = "idle" /\ editingItem = NoEdit /\ Len(historyStack) >= 2) =>
        LET back == redo(undo(S))
        IN  back.nodes = nodes /\ back.edges = edges

\* C3.  deleteSelected() with a node selected removes that node and every edge
\* whose source or target it is, and keeps every other node and edge in order.
C3_DeleteCascade ==
    phase = "run" =>
        \A i \in 1..Len(nodes) :
            LET n == nodes[i]
                after == deleteSelected([S EXCEPT !.selectedId = n.id])
                kept == SelectSeq(edges, LAMBDA e : e.source # n.id /\ e.target # n.id)
                rest == RemoveAt(nodes, i)
            IN  /\ [k \in 1..Len(after.nodes) |-> after.nodes[k].id]
                     = [k \in 1..Len(rest) |-> rest[k].id]
                /\ \A k \in 1..Len(after.edges) :
                       after.edges[k].source # n.id /\ after.edges[k].target # n.id
                /\ [k \in 1..Len(after.edges) |->
                       <<after.edges[k].id, after.edges[k].source, after.edges[k].target>>]
                     = [k \in 1..Len(kept) |-> <<kept[k].id, kept[k].source, kept[k].target>>]

\* The third node of the persisted diagram has been deleted: its edge went with
\* it and the two edges between the other nodes are left, in order.
C3_Witness ==
    /\ [k \in 1..Len(nodes) |-> nodes[k].id] = << <<"node", 1>>, <<"node", 2>> >>
    /\ [k \in 1..Len(edges) |-> edges[k].id] = << <<"edge", 1>>, <<"edge", 3>> >>
    /\ Len(historyStack) >= 2

\* C4.  Both endpoints of every edge are ids of nodes of the diagram.
C4_NoDanglingEdges ==
    \A k \in 1..Len(edges) :
        /\ FindIndexById(nodes, edges[k].source) # 0
        /\ FindIndexById(nodes, edges[k].target) # 0

\* C5.  No two nodes have the same id and no two edges have the same id.
C5_UniqueIds ==
    /\ \A i, j \in 1..Len(nodes) : nodes[i].id = nodes[j].id => i = j
    /\ \A i, j \in 1..Len(edges) : edges[i].id = edges[j].id => i = j

\* C6.  A commit pushes at most one snapshot, a snapshot it pushes differs from
\* the entry below it, and a second commit right after it changes nothing.
C6_CommitIdempotent ==
    phase = "run" =>
        LET once == saveHistory(S)
            twice == saveHistory(once)
            n == Len(once.historyStack)
        IN  /\ twice = once
            /\ n <= Len(historyStack) + 1
            /\ (once.historyStack # historyStack /\ n >= 2) =>
                   once.historyStack[n] # once.historyStack[n - 1]

\* A connect gesture is about to be released on a node: the pointer-up handler
\* commits in finalizeConnection() and once more itself.
C6_Witness ==
    /\ mode = "connecting"
    /\ \E p \in Pointers : FindConnectTarget(S, p) # 0 /\ EdgeRoom(p)
    /\ saveHistory(S) = S

\* C7.  Once init() has run the undo stack is never empty, and undo() on a stack
\* of one entry changes nothing.
C7_UndoFloor ==
    phase = "run" =>
        /\ Len(historyStack) >= 1
        /\ Len(historyStack) = 1 => undo(S) = S

\* undo() has taken the stack down to its first entry.
C7_Witness ==
    phase = "run" /\ Len(historyStack) = 1 /\ redoStack # <<>>

\* C8.  An event other than undo and redo that changes the undo stack leaves the
\* redo stack empty, and one that does not change it leaves the redo stack as it was.
C8_RedoClearedByCommit ==
    [][(~Undo /\ ~Redo) =>
          IF historyStack' # historyStack THEN redoStack' = <<>>
          ELSE redoStack' = redoStack]_vars

\* A drag is under way with snapshots on the redo stack, and releasing it pushes.
C8_Witness ==
    /\ redoStack # <<>>
    /\ mode = "dragging"
    /\ saveHistory(S).historyStack # historyStack

\* C9.  A connect gesture that starts on a node while no other gesture is in
\* progress and is released inside another node appends one edge from the first
\* node to the second, with one new history entry; released anywhere else it
\* leaves nodes, edges and the undo stack as they were.
C9_ConnectOutcome ==
    (phase = "run" /\ mode = "idle") =>
        \A i \in 1..Len(nodes), p \in Pointers :
            LET down == startConnecting([S EXCEPT !.selectedId = nodes[i].id], i)
                t == FindConnectTarget(down, p)
                up == mouseup(down, p, now)
            IN  IF t # 0
                THEN /\ up.nodes = nodes
                     /\ Len(up.edges) = Len(edges) + 1
                     /\ Front(up.edges) = edges
                     /\ Last(up.edges).source = nodes[i].id
                     /\ Last(up.edges).target = nodes[t].id
                     /\ Len(up.historyStack) = Len(historyStack) + 1
                     /\ Front(up.historyStack) = historyStack
                ELSE /\ up.nodes = nodes
                     /\ up.edges = edges
                     /\ up.historyStack = historyStack

\* C10.  An edit session on a node or an edge label: committing a text that
\* differs from the label sets the label and adds one history entry; Escape
\* leaves the labels and the history alone; both end the edit session.
C10_EditOutcome ==
    phase = "run" =>
        \A text \in Texts :
            /\ \A i \in 1..Len(nodes) :
                   LET typed == [openNodeEditor(S, i) EXCEPT !.nodeEditorValue = text]
                       done == closeEditors(typed)
                       esc == closeEditors([typed EXCEPT !.editingItem = NoEdit])
                   IN  /\ text # typed.nodes[i].label =>
                              /\ done.nodes[i].label = text
                              /\ Len(done.historyStack) = Len(typed.historyStack) + 1
                              /\ Front(done.historyStack) = typed.historyStack
                              /\ done.editingItem = NoEdit
                       /\ esc.nodes = typed.nodes
                       /\ esc.historyStack = typed.historyStack
                       /\ esc.editingItem = NoEdit
            /\ \A j \in 1..Len(edges) :
                   LET typed == [openEdgeEditor(S, j) EXCEPT !.edgeEditorValue = text]
                       done == closeEditors(typed)
                       esc == closeEditors([typed EXCEPT !.editingItem = NoEdit])
                   IN  /\ text # typed.edges[j].label =>
                              /\ done.edges[j].label = text
                              /\ Len(done.historyStack) = Len(typed.historyStack) + 1
                              /\ Front(done.historyStack) = typed.historyStack
                              /\ done.editingItem = NoEdit
                       /\ esc.edges = typed.edges
                       /\ esc.historyStack = typed.historyStack
                       /\ esc.editingItem = NoEdit

\* C11.  A drag that grabs a node at any point of its body and moves the pointer
\* by (dx, dy) puts the node at (snap(x0 + dx), snap(y0 + dy)), where (x0, y0) is
\* its position at pointer-down; every further pointer-move does the same with
\* the offset recorded at pointer-down.
C11_DragFollowsPointer ==
    phase = "run" =>
        \A p \in Pointers, q \in Pointers, r \in Pointers :
            BodyAt(S, p) # 0 =>
                LET i == BodyAt(S, p)
                    down == startDragging([S EXCEPT !.selectedId = nodes[i].id], i, p)
                    moved == mousemove(down, q)
                    again == mousemove(moved, r)
                IN  /\ moved.nodes[i].x = snap(nodes[i].x + (q[1] - p[1]))
                    /\ moved.nodes[i].y = snap(nodes[i].y + (q[2] - p[2]))
                    /\ again.nodes[i].x = snap(nodes[i].x + (r[1] - p[1]))
                    /\ again.nodes[i].y = snap(nodes[i].y + (r[2] - p[2]))
                    /\ \A k \in 1..Len(nodes) : k # i => again.nodes[k] = nodes[k]

\* The seeded node, grabbed at P1 at (320, 150) and dragged by (13, 27), is at
\* (330, 180).
C11_Witness ==
    /\ mode = "dragging"
    /\ targetItem.kind = "live"
    /\ dragOffset = [x |-> P1[1] - 320, y |-> P1[2] - 150]
    /\ nodes[targetItem.idx].x = 330
    /\ nodes[targetItem.idx].y = 180

\* C12.  At rest every node's x, y, width and height are multiples of GRID_SIZE.
C12_GridAligned ==
    (phase = "run" /\ mode = "idle") =>
        \A i \in 1..Len(nodes) :
            /\ nodes[i].x % GRID_SIZE = 0
            /\ nodes[i].y % GRID_SIZE = 0
            /\ nodes[i].width % GRID_SIZE = 0
            /\ nodes[i].height % GRID_SIZE = 0

\* C13.  Every node is at least MIN_WIDTH wide and MIN_HEIGHT high, and a
\* pointer-move of a resize gesture anywhere, also left of or above the node's
\* origin, sets the node's width to max(MIN_WIDTH, snap(pointerX - x)) and its
\* height to max(MIN_HEIGHT, snap(pointerY - y)).
C13_ResizeMinimum ==
    phase = "run" =>
        /\ \A i \in 1..Len(nodes) :
               nodes[i].width >= MIN_WIDTH /\ nodes[i].height >= MIN_HEIGHT
        /\ \A i \in 1..Len(nodes), p \in Pointers \cup {<<0, 0>>} :
               LET n == mousemove(startResizing(S, i), p).nodes[i]
               IN  /\ n.width = Max(MIN_WIDTH, snap(p[1] - nodes[i].x))
                   /\ n.height = Max(MIN_HEIGHT, snap(p[2] - nodes[i].y))
                   /\ n.x = nodes[i].x /\ n.y = nodes[i].y

\* A resize with the pointer left of and above the node's origin has been
\* committed: the node has the minimum size.
C13_Witness ==
    /\ mode = "idle"
    /\ \E i \in 1..Len(nodes) :
           /\ nodes[i].width = MIN_WIDTH /\ nodes[i].height = MIN_HEIGHT
           /\ \E p \in Pointers : p[1] < nodes[i].x /\ p[2] < nodes[i].y
    /\ Last(historyStack) = stringify(nodes, edges)

\* C14.  For every value v that a drag hands to snap() - a pointer coordinate
\* minus the grab offset, and its negative - snap(v) is a multiple of GRID_SIZE
\* at most half a grid unit away from v, and snap(snap(v)) = snap(v).
C14_SnapNearest ==
    mode = "dragging" =>
      \A p \in SnapPointers :
        \A v \in {p[1] - dragOffset.x, p[2] - dragOffset.y,
                  dragOffset.x - p[1], dragOffset.y - p[2]} :
            LET r == snap(v)
            IN  /\ r % GRID_SIZE = 0
                /\ r - v <= GRID_SIZE \div 2
                /\ v - r <= GRID_SIZE \div 2
                /\ snap(r) = r

\* A drag is under way and the node sits where snap() put it for a pointer
\* position exactly between two grid lines.
C14_Witness ==
    /\ mode = "dragging"
    /\ targetItem.kind = "live"
    /\ \E p \in SnapPointers :
           /\ (p[1] - dragOffset.x) % GRID_SIZE = GRID_SIZE \div 2
           /\ nodes[targetItem.idx].x = snap(p[1] - dragOffset.x)
           /\ nodes[targetItem.idx].x # p[1] - dragOffset.x
    /\ nodes[targetItem.idx].x # 320
    /\ dragOffset.x % GRID_SIZE # 0

\* C15.  init() on an absent or unparsable persisted value ends with one node,
\* the seeded lead-source node at (320, 150) labelled "Start Source", no edges,
\* an undo stack of exactly that snapshot, an empty redo stack and mode idle.
C15_StartupFallback ==
    [][(phase = "boot" /\ storage.kind \in {"absent", "malformed"}) =>
          /\ phase' = "run"
          /\ Len(nodes') = 1
          /\ nodes'[1].type = "lead-source"
          /\ nodes'[1].x = 320 /\ nodes'[1].y = 150
          /\ nodes'[1].label = "Start Source"
          /\ edges' = <<>>
          /\ historyStack' = <<stringify(nodes', edges')>>
          /\ redoStack' = <<>>
          /\ mode' = "idle"]_vars

\* init() has run on an empty start: the node carries the id of the session's
\* first clock reading and nothing else has happened.
C15_Witness ==
    /\ phase = "run"
    /\ ops = 0
    /\ Len(nodes) = 1
    /\ nodes[1].id = <<"node", StartClock>>
    /\ historyStack = <<stringify(nodes, edges)>>
    /\ storage.kind = "json"

\* C16.  An export clears the selection and closes the edit session before the
\* capture, changing nodes and edges only by what closing the session commits;
\* when the capture settles, with success or failure, the selection is the one
\* the export started with and nodes, edges and the history are untouched.
C16_ExportBracket ==
    [][/\ ExportStart =>
              /\ selectedId' = NoId
              /\ editingItem' = NoEdit
              /\ Last(pendingExports') = selectedId
              /\ nodes' = closeEditors(S).nodes
              /\ edges' = closeEditors(S).edges
       /\ \A k \in 1..Len(pendingExports), ok \in BOOLEAN :
              ExportSettle(k, ok) =>
                  /\ selectedId' = pendingExports[k]
                  /\ nodes' = nodes
                  /\ edges' = edges
                  /\ historyStack' = historyStack]_vars

\* An export that started with an item selected is in flight.
C16_Witness ==
    /\ pendingExports # <<>>
    /\ pendingExports[1] # NoId
    /\ selectedId = NoId
    /\ editingItem = NoEdit

\* C17.  When the capture of an export settles, nothing has been selected since
\* the export cleared the selection, and the selection it restores is null or
\* the id of a node or an edge of the diagram.
C17_ExportAtomic ==
    [][\A k \in 1..Len(pendingExports), ok \in BOOLEAN :
          ExportSettle(k, ok) =>
              /\ selectedId = NoId
              /\ \/ selectedId' = NoId
                 \/ FindIndexById(nodes', selectedId') # 0
                 \/ FindIndexById(edges', selectedId') # 0]_vars

\* C18.  A project name edit is a change that a commit records, and undo()
\* brings back the project name under which the restored snapshot was committed:
\* with a diagram committed under one name, the name edited, and another diagram
\* committed, undo() leaves the first name live.
C18_NameInSnapshots ==
    (phase = "run" /\ mode = "idle" /\ Last(historyStack) = stringify(nodes, edges)) =>
        \A value \in Names :
            LET renamed == nameInput(S, value)
                first == saveHistory(createNode(S, "decision", 0, 0, "", now))
                second == saveHistory(createNode(nameInput(first, value), "decision",
                                                 0, 0, "", now + 1))
            IN  renamed.projectName # projectName =>
                    /\ saveHistory(renamed).historyStack # historyStack
                    /\ undo(second).projectName = projectName

\* C19.  With no gesture in progress and no edit session open, the top of the
\* undo stack is the serialization of the live nodes and edges.
C19_TopIsLive ==
    (phase = "run" /\ mode = "idle" /\ editingItem = NoEdit) =>
        Last(historyStack) = stringify(nodes, edges)

\* C20.  A pointer-down on a node's body followed by a pointer-up at the same
\* point, with no move in between and whichever tool is active, leaves the undo
\* stack and the redo stack as they were.
C20_EmptyGesture ==
    (phase = "run" /\ mode = "idle") =>
        \A p \in Pointers :
            BodyAt(S, p) # 0 =>
                LET i == BodyAt(S, p)
                    sel == [S EXCEPT !.selectedId = nodes[i].id]
                    down == IF activeTool = "connector" THEN startConnecting(sel, i)
                            ELSE startDragging(sel, i, p)
                    up == mouseup(down, p, now)
                IN  /\ up.historyStack = historyStack
                    /\ up.redoStack = redoStack

\* k undo() calls, and k redo() calls, one after the other.
RECURSIVE UndoTimes(_, _)
UndoTimes(s, k) == IF k = 0 THEN s ELSE UndoTimes(undo(s), k - 1)

RECURSIVE RedoTimes(_, _)
RedoTimes(s, k) == IF k = 0 THEN s ELSE RedoTimes(redo(s), k - 1)

\* C21.  At rest, redo() followed by undo() shows the diagram that was shown
\* before the redo(); and for every k up to the depth of the history, k undo()
\* calls followed by j <= k redo() calls show the diagram that k - j undo() calls
\* show.
C21_UndoRedoWalk ==
    (phase = "run" /\ mode = "idle" /\ editingItem = NoEdit) =>
        /\ redoStack # <<>> =>
               LET back == undo(redo(S))
               IN  back.nodes = nodes /\ back.edges = edges
        /\ \A k \in 1..(Len(historyStack) - 1) :
               \A j \in 0..k :
                   LET there == RedoTimes(UndoTimes(S, k), j)
                       direct == UndoTimes(S, k - j)
                   IN  there.nodes = direct.nodes /\ there.edges = direct.edges

\* C22.  While a gesture is active the object state.targetItem refers to is an
\* element of the nodes array, so that a move changes a node of the diagram.
C22_TargetIsMember ==
    mode \in {"dragging", "resizing", "connecting"} =>
        /\ targetItem.kind = "live"
        /\ targetItem.idx \in 1..Len(nodes)

\* C23.  No gesture starts on a node that is under text edit: a pointer-down
\* that starts a drag, a resize or a connection acts on a node for which no edit
\* session is open.
C23_NoGestureOnEditedNode ==
    [][((\E p \in EditPointers : MouseDownNode(p))
            \/ (\E i \in 1..Len(nodes) : MouseDownResize(i)))
       => (editingItem.type = "none" \/ editingItem.id # nodes'[targetItem'.idx].id)]_vars

\* C24.  state.selectedId is null or the id of a node or an edge of the diagram.
C24_SelectionExists ==
    \/ selectedId = NoId
    \/ FindIndexById(nodes, selectedId) # 0
    \/ FindIndexById(edges, selectedId) # 0

\* C25.  At rest, what localStorage holds is the live diagram and project name.
C25_PersistedIsLive ==
    (phase = "run" /\ mode = "idle" /\ editingItem = NoEdit) =>
        /\ storage.kind = "json"
        /\ storage.data = <<nodes, edges, projectName>>

\* C26.  A gesture mode is entered only by a pointer-down on a node body or on a
\* resize handle, and only from idle: on a body it enters dragging with the select
\* tool and connecting with the connector tool, on a handle it enters resizing; a
\* pointer-down on a delete or an edit icon leaves the mode as it is.
C26_GestureStart ==
    [][/\ (mode' # mode /\ mode' # "idle") =>
              \/ \E p \in Pointers : MouseDownNode(p)
              \/ \E i \in 1..Len(nodes) : MouseDownResize(i)
       /\ \A p \in Pointers :
              MouseDownNode(p) =>
                  /\ mode = "idle"
                  /\ mode' = IF activeTool = "connector" THEN "connecting" ELSE "dragging"
       /\ \A i \in 1..Len(nodes) :
              /\ MouseDownResize(i) => (mode = "idle" /\ mode' = "resizing")
              /\ (MouseDownDeleteIcon(i) \/ OpenNodeEditor(i)) => mode' = mode]_vars

\* C27.  A pointer-up, in whatever mode it arrives, leaves the mode idle and
\* state.targetItem null; and in every state state.targetItem is null exactly when
\* the mode is idle.
C27_PointerUpEndsGesture ==
    /\ [](targetItem = NoTarget <=> mode = "idle")
    /\ [][\A p \in Pointers, dt \in Elapsed :
              MouseUp(p, dt) => (mode' = "idle" /\ targetItem' = NoTarget)]_vars

\* A drag of the seeded node from P1 to P2 has been released.
C27_Witness ==
    /\ mode = "idle"
    /\ targetItem = NoTarget
    /\ Len(nodes) >= 1
    /\ nodes[1].x = 330
    /\ nodes[1].y = 180
    /\ Last(historyStack) = stringify(nodes, edges)

\* The diagram after the pending text of the open session has been written into
\* the label of the item the session is for, if that item exists.
PendingWritten(s) ==
    LET ed == s.editingItem
        kn == IF ed.type = "node" THEN FindIndexById(s.nodes, ed.id) ELSE 0
        ke == IF ed.type = "edge" THEN FindIndexById(s.edges, ed.id) ELSE 0
    IN  [nodes |-> IF kn # 0 THEN [s.nodes EXCEPT ![kn].label = s.nodeEditorValue] ELSE s.nodes,
         edges |-> IF ke # 0 THEN [s.edges EXCEPT ![ke].label = s.edgeEditorValue] ELSE s.edges,
         found |-> kn # 0 \/ ke # 0]

\* C28.  With an edit session open: opening the editor of the item the session is
\* for changes nothing; opening the editor of another node or edge writes the
\* pending text into the label of the session's item, commits it (the diagram with
\* that label is on top of the undo stack), and leaves one session, for the item
\* opened, showing that item's label.
C28_OpenSwitches ==
    (phase = "run" /\ editingItem # NoEdit) =>
        LET w == PendingWritten(S)
        IN  /\ \A i \in 1..Len(nodes) :
                   LET r == openNodeEditor(S, i)
                   IN  IF nodes[i].id = editingItem.id THEN r = S
                       ELSE /\ r.nodes = w.nodes /\ r.edges = w.edges
                            /\ w.found => Last(r.historyStack) = stringify(w.nodes, w.edges)
                            /\ r.editingItem = [type |-> "node", id |-> nodes[i].id]
                            /\ r.nodeEditorValue = w.nodes[i].label
            /\ \A j \in 1..Len(edges) :
                   LET r == openEdgeEditor(S, j)
                   IN  IF edges[j].id = editingItem.id THEN r = S
                       ELSE /\ r.nodes = w.nodes /\ r.edges = w.edges
                            /\ w.found => Last(r.historyStack) = stringify(w.nodes, w.edges)
                            /\ r.editingItem = [type |-> "edge", id |-> edges[j].id]
                            /\ r.edgeEditorValue = w.edges[j].label

\* The editor of an edge label was opened while a node's editor held a new text:
\* the node has the text as its label and the session is the edge's.
C28_Witness ==
    /\ editingItem.type = "edge"
    /\ \E i \in 1..Len(nodes) : nodes[i].label = "Yes"
    /\ Last(historyStack) = stringify(nodes, edges)

\* C29.  closeEditors() on a session whose node or edge is no longer in the
\* diagram changes neither nodes nor edges nor the history, and ends the session.
C29_CloseMissingItem ==
    (phase = "run" /\ editingItem # NoEdit /\ ~PendingWritten(S).found) =>
        LET r == closeEditors(S)
        IN  /\ r.nodes = nodes
            /\ r.edges = edges
            /\ r.historyStack = historyStack
            /\ r.redoStack = redoStack
            /\ r.editingItem = NoEdit

\* A session is open, with a text typed, for an item that an undo has removed.
C29_Witness ==
    /\ editingItem # NoEdit
    /\ ~PendingWritten(S).found
    /\ nodeEditorValue = "Yes" \/ edgeEditorValue = "Yes"

\* C30.  A pointer-down on the canvas background in idle mode leaves the mode
\* idle, nothing selected and no edit session; the diagram changes only by the
\* pending text of the session it closes, written into the label of the session's
\* item and committed: no node is moved or resized, no edge added, removed or
\* reconnected.
C30_CanvasClick ==
    [][(MouseDownCanvas /\ mode = "idle") =>
           LET w == PendingWritten(S)
           IN  /\ mode' = "idle"
               /\ selectedId' = NoId
               /\ editingItem' = NoEdit
               /\ nodes' = w.nodes
               /\ edges' = w.edges
               /\ w.found => Last(historyStack') = stringify(w.nodes, w.edges)]_vars

\* A canvas click has closed a session in which a label was typed: the label is
\* in the diagram and committed, and nothing is selected.
C30_Witness ==
    /\ mode = "idle"
    /\ selectedId = NoId
    /\ editingItem = NoEdit
    /\ \E i \in 1..Len(nodes) : nodes[i].label = "Yes"
    /\ Last(historyStack) = stringify(nodes, edges)

\* C31.  No edge has its source as its target; and the release of a connect
\* gesture at p appends one edge from the gesture's node to the first node in
\* array order, other than that node, whose box contains p, and no edge when
\* there is no such node.
C31_ConnectTarget ==
    /\ \A k \in 1..Len(edges) : edges[k].source # edges[k].target
    /\ (phase = "run" /\ mode = "connecting") =>
           \A p \in ConnectPointers :
               LET src == TargetObj(S).id
                   inside == {i \in 1..Len(nodes) :
                                 /\ nodes[i].id # src
                                 /\ nodes[i].x < p[1] /\ p[1] < nodes[i].x + nodes[i].width
                                 /\ nodes[i].y < p[2] /\ p[2] < nodes[i].y + nodes[i].height}
                   r == mouseup(S, p, now)
               IN  IF inside = {} THEN r.edges = edges
                   ELSE \E i \in inside :
                            /\ \A j \in inside : i <= j
                            /\ Len(r.edges) = Len(edges) + 1
                            /\ Front(r.edges) = edges
                            /\ Last(r.edges).source = src
                            /\ Last(r.edges).target = nodes[i].id

\* The first node was dragged over the second and the drag committed; then a
\* connection from the third node was released at a point inside both, and its
\* target is the first node.
C31_Witness ==
    /\ Len(nodes) = 3
    /\ \A i \in {1, 2} : ConnectHit(nodes[i], nodes[3].id, P3)
    /\ Len(historyStack) = 3
    /\ historyStack[2] = stringify(nodes, <<>>)
    /\ Len(edges) = 1
    /\ edges[1].source = nodes[3].id
    /\ edges[1].target = nodes[1].id

\* C32.  In connecting mode a pointer-move, and so any number of them, changes
\* neither nodes nor edges nor the undo stack nor the redo stack, and leaves the
\* gesture as it is.
C32_ConnectMoveIsPure ==
    (phase = "run" /\ mode = "connecting") =>
        \A p \in ConnectPointers :
            LET r == mousemove(S, p)
            IN  /\ r.nodes = nodes
                /\ r.edges = edges
                /\ r.historyStack = historyStack
                /\ r.redoStack = redoStack
                /\ r.storage = storage
                /\ r.mode = "connecting"
                /\ r.targetItem = targetItem

\* A connect gesture is in progress from the third node, after the first node
\* was dragged away from where it was persisted.
C32_Witness ==
    /\ mode = "connecting"
    /\ targetItem.kind = "live"
    /\ targetItem.idx = 3
    /\ nodes[1].x # 320

\* C33.  An edge that is in the diagram before and after an event has the same
\* source and the same target after it as before.
C33_EndpointsImmutable ==
    [][\A k \in 1..Len(edges), m \in 1..Len(edges') :
           edges[k].id = edges'[m].id =>
               /\ edges'[m].source = edges[k].source
               /\ edges'[m].target = edges[k].target]_vars

\* The label of the persisted edge has been edited and committed; the edge still
\* runs from the first node to the second.
C33_Witness ==
    /\ Len(edges) = 1
    /\ edges[1].id = <<"edge", 3>>
    /\ edges[1].label = "Yes"
    /\ edges[1].source = <<"node", 1>>
    /\ edges[1].target = <<"node", 2>>
    /\ Len(historyStack) >= 2

\* C34.  deleteSelected() with nothing selected, or with a selection that is the
\* id of no node and of no edge, changes neither nodes nor edges nor the undo
\* stack nor the redo stack.
C34_DeleteAbsent ==
    (/\ phase = "run"
     /\ FindIndexById(nodes, selectedId) = 0
     /\ FindIndexById(edges, selectedId) = 0) =>
        LET r == deleteSelected(S)
        IN  /\ r.nodes = nodes
            /\ r.edges = edges
            /\ r.historyStack = historyStack
            /\ r.redoStack = redoStack

\* C35.  The mode is idle when init() runs, and in every state it is one of
\* idle, dragging, resizing and connecting: never panning.
C35_ModeDomain ==
    /\ mode \in {"idle", "dragging", "resizing", "connecting"}
    /\ phase = "boot" => mode = "idle"

\* A connect gesture is in progress after a drag was released and committed.
C35_Witness ==
    /\ mode = "connecting"
    /\ activeTool = "connector"
    /\ Len(historyStack) >= 2
    /\ \E i \in 1..Len(nodes) : nodes[i].x \notin {320, 500}
====
